---- MODULE Spec2Model ----
(***************************************************************************)
(* Model of scripts/generate_modulator_presets.py: the SideFX Modulator    *)
(* preset generator.  A Python string is a sequence of one-character       *)
(* strings, a Python list a sequence (index i of the code is index i+1     *)
(* here), and a Python number a record: PyInt(n) is the int n, PyFloat(k)  *)
(* the float k/1000 (every float of the script has at most 3 decimals).    *)
(***************************************************************************)
EXTENDS Integers, Sequences, FiniteSets, TLC

\* ------------------------------------------------------------ bounds
\* Longest points list, longest curves list and largest num_points handed to
\* an encoder, and the longest shape tables handed to main.
MaxPoints == 17
MaxCurves == 16
MaxNumPoints == 17
MaxBasic == 2
MaxCurved == 2

\* ------------------------------------------------- program constants
NumSlots == 86
PointBase == 39
PointSlots == 16
NamePos == 64
CurveBase == 72
CurveSlots == 15
LineWidth == 80

Min(a, b) == IF a < b THEN a ELSE b

\* The list whose elements a function on 1..n gives: the same value, built as a
\* tuple.
List(f) == SubSeq(f, 1, Len(f))

\* ------------------------------------------------------------ strings
\* A TLA+ string cannot hold the backtick character: this atom stands for it.
Backtick == "BACKTICK"

\* The printable ASCII characters, code 32 (space) to 126 (~), in code order.
Ascii ==
  << " ", "!", "\"", "#", "$", "%", "&", "'", "(", ")", "*", "+", ",", "-", ".", "/",
     "0", "1", "2", "3", "4", "5", "6", "7", "8", "9", ":", ";", "<", "=", ">", "?",
     "@", "A", "B", "C", "D", "E", "F", "G", "H", "I", "J", "K", "L", "M", "N", "O",
     "P", "Q", "R", "S", "T", "U", "V", "W", "X", "Y", "Z", "[", "\\", "]", "^", "_",
     Backtick, "a", "b", "c", "d", "e", "f", "g", "h", "i", "j", "k", "l", "m", "n", "o",
     "p", "q", "r", "s", "t", "u", "v", "w", "x", "y", "z", "{", "|", "}", "~" >>

OrdTable == [c \in {Ascii[i] : i \in 1..Len(Ascii)} |->
               31 + (CHOOSE i \in 1..Len(Ascii) : Ascii[i] = c)]

\* str.encode(): the UTF-8 bytes of an ASCII string are its character codes.
StrEncode(s) == List([i \in 1..Len(s) |-> OrdTable[s[i]]])

\* bytes.decode(): the inverse on ASCII bytes.
BytesDecode(b) == List([i \in 1..Len(b) |-> Ascii[b[i] - 31]])

PyInt(n) == [t |-> "int", v |-> n]
PyFloat(k) == [t |-> "float", v |-> k]

Digits == <<"0", "1", "2", "3", "4", "5", "6", "7", "8", "9">>

RECURSIVE StrNat(_)
StrNat(n) == IF n < 10 THEN <<Digits[n + 1]>>
             ELSE StrNat(n \div 10) \o <<Digits[(n % 10) + 1]>>

\* str() of an int: decimal digits, a leading minus sign when negative.
StrInt(n) == IF n < 0 THEN <<"-">> \o StrNat(-n) ELSE StrNat(n)

\* str() of the float k/1000: the shortest decimal that reads back, which keeps
\* one fractional digit at least and no trailing zero beyond it.
StrFloat(k) ==
  LET a == IF k < 0 THEN -k ELSE k
      d1 == (a % 1000) \div 100
      d2 == (a % 100) \div 10
      d3 == a % 10
      frac == IF d3 # 0 THEN <<Digits[d1 + 1], Digits[d2 + 1], Digits[d3 + 1]>>
              ELSE IF d2 # 0 THEN <<Digits[d1 + 1], Digits[d2 + 1]>>
              ELSE <<Digits[d1 + 1]>>
  IN (IF k < 0 THEN <<"-">> ELSE <<>>) \o StrNat(a \div 1000) \o <<".">> \o frac

Str(x) == IF x.t = "int" THEN StrInt(x.v) ELSE StrFloat(x.v)

\* Python list indexing, 0-based.
At(list, i) == list[i + 1]
Put(list, i, x) == [list EXCEPT ![i + 1] = x]

\* list.insert(i, x): x goes before index i, or at the end when i >= len.
ListInsert(list, i, x) ==
  LET k == Min(i, Len(list))
  IN SubSeq(list, 1, k) \o <<x>> \o SubSeq(list, k + 1, Len(list))

\* sep.join(parts), here of parts[lo..hi]: the parts in order, sep between
\* each two neighbours.
RECURSIVE JoinRange(_, _, _, _)
JoinRange(sep, parts, lo, hi) ==
  IF lo > hi THEN <<>>
  ELSE IF lo = hi THEN parts[lo]
  ELSE LET mid == (lo + hi) \div 2
       IN JoinRange(sep, parts, lo, mid) \o sep \o JoinRange(sep, parts, mid + 1, hi)

StrJoin(sep, parts) == JoinRange(sep, parts, 1, Len(parts))

\* ------------------------------------------------------------ base64
B64Alphabet ==
  << "A", "B", "C", "D", "E", "F", "G", "H", "I", "J", "K", "L", "M", "N", "O", "P",
     "Q", "R", "S", "T", "U", "V", "W", "X", "Y", "Z", "a", "b", "c", "d", "e", "f",
     "g", "h", "i", "j", "k", "l", "m", "n", "o", "p", "q", "r", "s", "t", "u", "v",
     "w", "x", "y", "z", "0", "1", "2", "3", "4", "5", "6", "7", "8", "9", "+", "/" >>

\* base64.b64encode(bytes).decode(): each group of 3 bytes gives 4 characters of
\* 6 bits; a last group of 1 or 2 bytes is zero-filled and padded with "=".
B64Encode(b) ==
  LET n == Len(b)
      byte(i) == IF i <= n THEN b[i] ELSE 0
      group(g) == byte(3 * g - 2) * 65536 + byte(3 * g - 1) * 256 + byte(3 * g)
      have(g) == Min(3, n - 3 * (g - 1))
      char(j) ==
        LET g == ((j - 1) \div 4) + 1
            p == (j - 1) % 4
            v == group(g)
        IN IF p = 0 THEN B64Alphabet[(v \div 262144) + 1]
           ELSE IF p = 1 THEN B64Alphabet[((v \div 4096) % 64) + 1]
           ELSE IF p = 2 THEN (IF have(g) < 2 THEN "="
                               ELSE B64Alphabet[((v \div 64) % 64) + 1])
           ELSE (IF have(g) < 3 THEN "=" ELSE B64Alphabet[(v % 64) + 1])
  IN List([j \in 1..(4 * ((n + 2) \div 3)) |-> char(j)])

\* ------------------------------------------------------------ encoder
Dash == <<"-">>

\* values = ["-"] * 86, then the fixed rate, trigger, grid and mode slots and
\* values[29] = str(num_points).
FixedSlots(num_points) ==
  LET set == (0 :> <<"0">>) @@ (1 :> <<"1">>) @@ (2 :> <<"5">>)
             @@ (3 :> <<"0">>) @@ (4 :> <<"0">>) @@ (5 :> <<"1">>)
             @@ (19 :> <<"0">>) @@ (20 :> <<"0">>) @@ (21 :> <<"0">>)
             @@ (22 :> <<"0", ".", "5">>) @@ (23 :> <<"1", "0", "0">>)
             @@ (24 :> <<"5", "0", "0">>)
             @@ (25 :> <<"2">>) @@ (26 :> <<"1">>) @@ (27 :> <<"0">>)
             @@ (28 :> <<"0">>) @@ (29 :> Str(PyInt(num_points)))
  IN List([s \in 1..NumSlots |-> IF (s - 1) \in DOMAIN set THEN set[s - 1] ELSE Dash])

\* Faulty variant of PointSlot: the point region starts one slot late.
PointSlotShifted(i) == PointBase + 1 + i * 2

\* The first slot of point i: 39 + i*2.
PointSlot(i) == PointBase + i * 2

\* Faulty variant of Neutral: unused point slots keep the placeholder.
NeutralAsDash == <<"-">>

\* What an unused point slot is filled with.
Neutral == <<"0", ".", "5">>

\* for i in range(16): the point's two components when i < len(points), else
\* the neutral pair.
RECURSIVE PointLoop(_, _, _)
PointLoop(values, points, i) ==
  IF i >= PointSlots THEN values
  ELSE LET x == IF i < Len(points) THEN Str(At(At(points, i), 0)) ELSE Neutral
           y == IF i < Len(points) THEN Str(At(At(points, i), 1)) ELSE Neutral
       IN PointLoop(Put(Put(values, PointSlot(i), x), PointSlot(i) + 1, y),
                    points, i + 1)

\* f'"{name}"'
Quoted(name) == <<"\"">> \o name \o <<"\"">>

\* Faulty variant of InsertName: the name goes in one position early.
InsertNameEarly(values, name) == ListInsert(values, NamePos - 1, Quoted(name))

\* values.insert(64, f'"{name}"')
InsertName(values, name) == ListInsert(values, NamePos, Quoted(name))

\* create_basic_preset: for i in range(15): values[72 + i] = "0"
RECURSIVE ZeroCurves(_, _)
ZeroCurves(values, i) ==
  IF i >= CurveSlots THEN values
  ELSE ZeroCurves(Put(values, CurveBase + i, <<"0">>), i + 1)

\* create_curved_preset: for i, curve in enumerate(curves):
\*                           if i < 15: values[72 + i] = str(curve)
RECURSIVE CurveLoop(_, _, _)
CurveLoop(values, curves, i) ==
  IF i >= Len(curves) THEN values
  ELSE CurveLoop(IF i < CurveSlots
                 THEN Put(values, CurveBase + i, Str(At(curves, i)))
                 ELSE values,
                 curves, i + 1)

\* Faulty variant of WriteCurves: the curve region is zero-filled first, as in
\* create_basic_preset.
WriteCurvesZeroFilled(values, curves) == CurveLoop(ZeroCurves(values, 0), curves, 0)

\* The curve writes of create_curved_preset.
WriteCurves(values, curves) == CurveLoop(values, curves, 0)

\* Faulty variant of Serialize: the tokens are joined with no separator.
JoinNoSeparator(values) == StrJoin(<<>>, values)

\* full = " ".join(values)
Serialize(values) == StrJoin(<<" ">>, values)

\* encoded = base64.b64encode(full.encode()).decode()
Encode(full) == B64Encode(StrEncode(full))

\* Faulty variant of Chunks: one chunk too many when len(encoded) is a multiple
\* of 80, the last one empty.
ChunksWithEmptyTail(encoded) ==
  List([j \in 1..((Len(encoded) \div LineWidth) + 1) |->
          SubSeq(encoded, LineWidth * (j - 1) + 1, Min(LineWidth * j, Len(encoded)))])

\* lines = [encoded[i:i+80] for i in range(0, len(encoded), 80)]
Chunks(encoded) ==
  List([j \in 1..((Len(encoded) + LineWidth - 1) \div LineWidth) |->
          SubSeq(encoded, LineWidth * (j - 1) + 1, Min(LineWidth * j, Len(encoded)))])

\* The separator of "\n    ".join(lines)
LineSep == <<"\n", " ", " ", " ", " ">>

\* return "\n    ".join(lines)
WrapJoin(lines) == StrJoin(LineSep, lines)

BasicTokens(name, num_points, points) ==
  ZeroCurves(InsertName(PointLoop(FixedSlots(num_points), points, 0), name), 0)

CurvedTokens(name, num_points, points, curves) ==
  WriteCurves(InsertName(PointLoop(FixedSlots(num_points), points, 0), name),
              curves)

\* The two encoders, statement by statement: each set binds one local of the
\* code to its value, innermost first (values, full, encoded, lines), and the
\* value chosen is the one returned.
create_basic_preset(name, num_points, points) ==
  CHOOSE ret \in
    {WrapJoin(lines) :
       lines \in {Chunks(encoded) :
         encoded \in {Encode(full) :
           full \in {Serialize(values) :
             values \in {BasicTokens(name, num_points, points)}}}}} : TRUE

create_curved_preset(name, num_points, points, curves) ==
  CHOOSE ret \in
    {WrapJoin(lines) :
       lines \in {Chunks(encoded) :
         encoded \in {Encode(full) :
           full \in {Serialize(values) :
             values \in {CurvedTokens(name, num_points, points, curves)}}}}} : TRUE

\* ------------------------------------------------------ the shape tables
\* Entries of main's tables.
RampUpPoints == << <<PyInt(0), PyInt(0)>>, <<PyInt(1), PyInt(1)>> >>
TrianglePoints ==
  << <<PyInt(0), PyInt(0)>>, <<PyFloat(500), PyInt(1)>>, <<PyInt(1), PyInt(0)>> >>
SharkFinPoints ==
  << <<PyInt(0), PyInt(0)>>, <<PyFloat(200), PyInt(1)>>, <<PyInt(1), PyInt(0)>> >>
SharkFinCurves == <<PyFloat(-500), PyFloat(500)>>

NameRampUp == <<"R", "a", "m", "p", "_", "U", "p">>
NameTriangle == <<"T", "r", "i", "a", "n", "g", "l", "e">>
NameSharkFin == <<"S", "h", "a", "r", "k", "_", "F", "i", "n">>

\* Inputs of the encoders beyond main's tables: names with a space, a backtick
\* and a double quote, points lists shorter and longer than the 16 point slots,
\* curves lists shorter and longer than the 15 curve slots.
TestPoints(n) == List([i \in 1..n |-> <<PyFloat(((i - 1) * 1000) \div n), PyInt(i % 2)>>])
ZerosThen(n) == List([i \in 1..n |-> IF i <= 15 THEN PyInt(0) ELSE PyFloat(700)])
RampCurves(n) == List([i \in 1..n |-> PyFloat(100 * i - 800)])

Names == {NameRampUp, NameSharkFin, <<"S", "a", "w">>, <<"A", " ", "B">>,
          <<"A", Backtick, "B">>, <<"A", "\"", "B">>}
NumPointsPool == (0..3) \cup (16..MaxNumPoints)
PointLists == {<<>>, RampUpPoints, TrianglePoints, SharkFinPoints}
              \cup {TestPoints(n) : n \in {13} \cup (16..MaxPoints)}
CurveLists == {<<>>, SharkFinCurves}
              \cup {ZerosThen(n) : n \in 14..MaxCurves}
              \cup {RampCurves(n) : n \in 15..MaxCurves}

BasicPool == {<<NameRampUp, 2, RampUpPoints>>,
              <<NameTriangle, 3, TrianglePoints>>,
              <<<<"A", Backtick, "B">>, 2, RampUpPoints>>}
CurvedPool == {<<NameSharkFin, 3, SharkFinPoints, SharkFinCurves>>,
               <<<<"F", "i", "n">>, 17, TestPoints(17), ZerosThen(16)>>}
Tables(pool, max) == UNION {[1..n -> pool] : n \in 0..max}

\* ------------------------------------------------------------ state
VARIABLES
  basic, curved,     \* main: the two shape tables
  pc,                \* main: the statement about to run
  idx,               \* main: how many entries of the current table are done
  main_encoded,      \* main: encoded, the payload of the current entry
  out,               \* standard output: one string per print call
  fn,                \* the encoder called: "basic" or "curved"
  name, num_points, points, curves,   \* its arguments
  values, full, encoded, lines, ret,  \* its locals and its return value
  at                 \* the encoder statement about to run

mainVars == <<basic, curved, pc, idx, main_encoded, out>>
callVars == <<fn, name, num_points, points, curves, values, full, encoded, lines, ret, at>>
vars == <<mainVars, callVars>>

NoCall ==
  /\ fn = "none" /\ name = <<>> /\ num_points = 0 /\ points = <<>> /\ curves = <<>>
  /\ values = <<>> /\ full = <<>> /\ encoded = <<>> /\ lines = <<>> /\ ret = <<>>

\* ------------------------------------------------------------ main
Header == <<"<", "R", "E", "A", "P", "E", "R", "_", "P", "R", "E", "S", "E", "T", "_", "L", "I", "B", "R", "A", "R", "Y", " ", "\"", "J", "S", ":", " ", "S", "i", "d", "e", "F", "X", " ", "M", "o", "d", "u", "l", "a", "t", "o", "r", "\"">>
Footer == <<">">>
PresetOpen(n) == <<" ", " ", "<", "P", "R", "E", "S", "E", "T", " ", Backtick>> \o n \o <<Backtick>>
PresetBody(e) == <<" ", " ", " ", " ">> \o e
PresetClose == <<" ", " ", ">">>

\* Faulty variant of Entry: the table is walked from its end.
EntryReversed(table, i) == At(table, Len(table) - 1 - i)

\* The entry a for loop over a table visits in its i-th iteration (from 0).
Entry(table, i) == At(table, i)

Init ==
  /\ basic \in Tables(BasicPool, MaxBasic)
  /\ curved \in Tables(CurvedPool, MaxCurved)
  /\ pc = "header" /\ idx = 0 /\ main_encoded = <<>> /\ out = <<>>
  /\ NoCall /\ at = "unused"

\* print('<REAPER_PRESET_LIBRARY "JS: SideFX Modulator"')
PrintHeader ==
  /\ pc = "header"
  /\ out' = Append(out, Header)
  /\ pc' = "basic_for"
  /\ UNCHANGED <<basic, curved, idx, main_encoded, callVars>>

\* for name, num_pts, points in basic: encoded = create_basic_preset(...)
BasicEncode ==
  /\ pc = "basic_for" /\ idx < Len(basic)
  /\ main_encoded' = create_basic_preset(Entry(basic, idx)[1], Entry(basic, idx)[2],
                                         Entry(basic, idx)[3])
  /\ pc' = "basic_open"
  /\ UNCHANGED <<basic, curved, idx, out, callVars>>

BasicPrintOpen ==
  /\ pc = "basic_open"
  /\ out' = Append(out, PresetOpen(Entry(basic, idx)[1]))
  /\ pc' = "basic_body"
  /\ UNCHANGED <<basic, curved, idx, main_encoded, callVars>>

BasicPrintBody ==
  /\ pc = "basic_body"
  /\ out' = Append(out, PresetBody(main_encoded))
  /\ pc' = "basic_close"
  /\ UNCHANGED <<basic, curved, idx, main_encoded, callVars>>

BasicPrintClose ==
  /\ pc = "basic_close"
  /\ out' = Append(out, PresetClose)
  /\ idx' = idx + 1
  /\ pc' = "basic_for"
  /\ UNCHANGED <<basic, curved, main_encoded, callVars>>

\* The basic table is exhausted: on to the curved table.
BasicDone ==
  /\ pc = "basic_for" /\ idx >= Len(basic)
  /\ idx' = 0
  /\ pc' = "curved_for"
  /\ UNCHANGED <<basic, curved, main_encoded, out, callVars>>

\* for name, num_pts, points, curves in curved: encoded = create_curved_preset(...)
CurvedEncode ==
  /\ pc = "curved_for" /\ idx < Len(curved)
  /\ main_encoded' = create_curved_preset(Entry(curved, idx)[1], Entry(curved, idx)[2],
                                          Entry(curved, idx)[3], Entry(curved, idx)[4])
  /\ pc' = "curved_open"
  /\ UNCHANGED <<basic, curved, idx, out, callVars>>

CurvedPrintOpen ==
  /\ pc = "curved_open"
  /\ out' = Append(out, PresetOpen(Entry(curved, idx)[1]))
  /\ pc' = "curved_body"
  /\ UNCHANGED <<basic, curved, idx, main_encoded, callVars>>

CurvedPrintBody ==
  /\ pc = "curved_body"
  /\ out' = Append(out, PresetBody(main_encoded))
  /\ pc' = "curved_close"
  /\ UNCHANGED <<basic, curved, idx, main_encoded, callVars>>

CurvedPrintClose ==
  /\ pc = "curved_close"
  /\ out' = Append(out, PresetClose)
  /\ idx' = idx + 1
  /\ pc' = "curved_for"
  /\ UNCHANGED <<basic, curved, main_encoded, callVars>>

\* print(">")
PrintFooter ==
  /\ pc = "curved_for" /\ idx >= Len(curved)
  /\ out' = Append(out, Footer)
  /\ pc' = "done"
  /\ UNCHANGED <<basic, curved, idx, main_encoded, callVars>>

Next ==
  \/ PrintHeader
  \/ BasicEncode \/ BasicPrintOpen \/ BasicPrintBody \/ BasicPrintClose \/ BasicDone
  \/ CurvedEncode \/ CurvedPrintOpen \/ CurvedPrintBody \/ CurvedPrintClose
  \/ PrintFooter

Spec == Init /\ [][Next]_vars

\* ------------------------------------------------- one encoder call
EncInit ==
  /\ basic = <<>> /\ curved = <<>> /\ pc = "unused" /\ idx = 0
  /\ main_encoded = <<>> /\ out = <<>>
  /\ NoCall /\ at = "idle"

\* create_basic_preset(name, num_points, points) is called.
CallBasic ==
  /\ at = "idle"
  /\ \E n \in Names, np \in NumPointsPool, pts \in PointLists :
       /\ fn' = "basic" /\ name' = n /\ num_points' = np /\ points' = pts
       /\ curves' = <<>>
  /\ at' = "fixed"
  /\ UNCHANGED <<values, full, encoded, lines, ret, mainVars>>

\* create_curved_preset(name, num_points, points, curves) is called.
CallCurved ==
  /\ at = "idle"
  /\ \E n \in Names, np \in NumPointsPool, pts \in PointLists, cv \in CurveLists :
       /\ fn' = "curved" /\ name' = n /\ num_points' = np /\ points' = pts
       /\ curves' = cv
  /\ at' = "fixed"
  /\ UNCHANGED <<values, full, encoded, lines, ret, mainVars>>

\* values = ["-"] * 86 ... values[29] = str(num_points)
SetFixed ==
  /\ at = "fixed"
  /\ values' = FixedSlots(num_points)
  /\ at' = "points"
  /\ UNCHANGED <<fn, name, num_points, points, curves, full, encoded, lines, ret, mainVars>>

\* for i in range(16): ...
SetPoints ==
  /\ at = "points"
  /\ values' = PointLoop(values, points, 0)
  /\ at' = "insert"
  /\ UNCHANGED <<fn, name, num_points, points, curves, full, encoded, lines, ret, mainVars>>

\* values.insert(64, f'"{name}"')
DoInsertName ==
  /\ at = "insert"
  /\ values' = InsertName(values, name)
  /\ at' = "curves"
  /\ UNCHANGED <<fn, name, num_points, points, curves, full, encoded, lines, ret, mainVars>>

\* create_basic_preset: all 15 curve positions set to "0"
BasicSetCurves ==
  /\ at = "curves" /\ fn = "basic"
  /\ values' = ZeroCurves(values, 0)
  /\ at' = "join"
  /\ UNCHANGED <<fn, name, num_points, points, curves, full, encoded, lines, ret, mainVars>>

\* create_curved_preset: the supplied curves written
CurvedSetCurves ==
  /\ at = "curves" /\ fn = "curved"
  /\ values' = WriteCurves(values, curves)
  /\ at' = "join"
  /\ UNCHANGED <<fn, name, num_points, points, curves, full, encoded, lines, ret, mainVars>>

\* full = " ".join(values)
DoSerialize ==
  /\ at = "join"
  /\ full' = Serialize(values)
  /\ at' = "encode"
  /\ UNCHANGED <<fn, name, num_points, points, curves, values, encoded, lines, ret, mainVars>>

\* encoded = base64.b64encode(full.encode()).decode()
DoEncode ==
  /\ at = "encode"
  /\ encoded' = Encode(full)
  /\ at' = "wrap"
  /\ UNCHANGED <<fn, name, num_points, points, curves, values, full, lines, ret, mainVars>>

\* lines = [encoded[i:i+80] for i in range(0, len(encoded), 80)]
DoChunks ==
  /\ at = "wrap"
  /\ lines' = Chunks(encoded)
  /\ at' = "return"
  /\ UNCHANGED <<fn, name, num_points, points, curves, values, full, encoded, ret, mainVars>>

\* return "\n    ".join(lines)
Return ==
  /\ at = "return"
  /\ ret' = WrapJoin(lines)
  /\ at' = "done"
  /\ UNCHANGED <<fn, name, num_points, points, curves, values, full, encoded, lines, mainVars>>

EncNext ==
  \/ CallBasic \/ CallCurved
  \/ SetFixed \/ SetPoints \/ DoInsertName
  \/ BasicSetCurves \/ CurvedSetCurves
  \/ DoSerialize \/ DoEncode \/ DoChunks \/ Return

EncSpec == EncInit /\ [][EncNext]_vars

\* ------------------------------------------------------------ claims
\* The encoder has run values.insert: values is the 87-token sequence.
AfterInsert == at \in {"curves", "join", "encode", "wrap", "return", "done"}

\* The encoder has written the curve region: values is final.
AfterCurves == at \in {"join", "encode", "wrap", "return", "done"}

\* What the point loop writes for component c (0: x, 1: y) of point i.
PointToken(i, c) ==
  IF i < Len(points) THEN Str(At(At(points, i), c)) ELSE <<"0", ".", "5">>

\* C1: whatever the name, num_points, points and curves, the slot sequence has
\* 86 elements before the name is spliced in and 87 after, the token at index 64
\* is the name in double quotes, and in the serialized text the quoted name
\* starts right after the first 64 tokens and their separators.
C1_SlotCounts ==
  /\ at \in {"points", "insert"} => Len(values) = 86
  /\ AfterInsert =>
       /\ Len(values) = 87
       /\ At(values, 64) = <<"\"">> \o name \o <<"\"">>
  /\ at \in {"encode", "wrap", "return", "done"} =>
       LET before == Len(StrJoin(<<" ">>, SubSeq(values, 1, 64))) + 1
       IN SubSeq(full, before + 1, before + Len(name) + 2)
            = <<"\"">> \o name \o <<"\"">>

\* C1 witness: a curved call with a spaced name, more than 16 points and more
\* than 15 curves has returned.
C1_Witness ==
  /\ at = "done" /\ fn = "curved"
  /\ name = <<"A", " ", "B">> /\ Len(points) > 16 /\ Len(curves) > 15

\* C2: for num_points in 1..16, before the name is inserted every point slot pair
\* 39+2i, 40+2i with i >= num_points holds "0.5","0.5", also when num_points is
\* not the number of points supplied.
C2_UnusedNeutral ==
  (at = "insert" /\ num_points \in 1..16) =>
    \A i \in 0..15 :
      i >= num_points =>
        /\ At(values, 39 + 2 * i) = <<"0", ".", "5">>
        /\ At(values, 40 + 2 * i) = <<"0", ".", "5">>

\* C5: the lines cut from the base64 text E concatenate to E, every line but the
\* last has 80 characters, the last has len(E) mod 80, or 80 when len(E) is a
\* non-zero multiple of 80, and the returned body is the lines with a newline
\* and 4 spaces between each two.
C5_LineWrap ==
  /\ at \in {"return", "done"} =>
       LET n == Len(lines)
           total == Len(encoded)
       IN /\ n = (total + 79) \div 80
          /\ \A j \in 1..n :
               Len(lines[j]) = IF j < n THEN 80
                               ELSE IF total % 80 = 0 THEN 80 ELSE total % 80
          /\ \A k \in 1..total : lines[((k - 1) \div 80) + 1][((k - 1) % 80) + 1] = encoded[k]
  /\ at = "done" =>
       LET n == Len(lines)
       IN /\ Len(ret) = Len(encoded) + 5 * (n - 1)
          /\ \A j \in 1..n :
               SubSeq(ret, 85 * (j - 1) + 1, 85 * (j - 1) + Len(lines[j])) = lines[j]
          /\ \A j \in 1..(n - 1) :
               SubSeq(ret, 85 * j - 4, 85 * j) = <<"\n", " ", " ", " ", " ">>

\* C5 witness: a call has returned whose base64 text is a non-zero multiple of
\* 80 characters long.
C5_Witness == at = "done" /\ Len(encoded) > 0 /\ Len(encoded) % 80 = 0

\* The call create_basic_preset("Ramp_Up", 2, [(0, 0), (1, 1)]).
RampUpCall ==
  /\ fn = "basic" /\ name = NameRampUp /\ num_points = 2
  /\ points = << <<PyInt(0), PyInt(0)>>, <<PyInt(1), PyInt(1)>> >>

\* C6 as stated: for Ramp_Up, "0" and "1" are at slots 39 and 40, "0.5" in every
\* slot of 41..70, "2" at slot 29 and the quoted name right after slot 63.
C6_RampUpAsStated ==
  /\ (RampUpCall /\ at = "insert") =>
       /\ At(values, 39) = <<"0">> /\ At(values, 40) = <<"1">>
       /\ \A k \in 41..70 : At(values, k) = <<"0", ".", "5">>
       /\ At(values, 29) = <<"2">>
  /\ (RampUpCall /\ AfterInsert) =>
       At(values, 64) = <<"\"", "R", "a", "m", "p", "_", "U", "p", "\"">>

\* C6 amended: for Ramp_Up, point 0 puts "0","0" at slots 39 and 40, point 1 puts
\* "1","1" at slots 41 and 42, every slot of 43..70 holds "0.5", slot 29 holds
\* "2", and the quoted name is the token right after slot 63.
C6_RampUp ==
  /\ (RampUpCall /\ at = "insert") =>
       /\ At(values, 39) = <<"0">> /\ At(values, 40) = <<"0">>
       /\ At(values, 41) = <<"1">> /\ At(values, 42) = <<"1">>
       /\ \A k \in 43..70 : At(values, k) = <<"0", ".", "5">>
       /\ At(values, 29) = <<"2">>
  /\ (RampUpCall /\ AfterInsert) =>
       /\ At(values, 64) = <<"\"", "R", "a", "m", "p", "_", "U", "p", "\"">>
       /\ \A k \in 43..63 : At(values, k) = <<"0", ".", "5">>
       /\ \A k \in 65..71 : At(values, k) = <<"0", ".", "5">>

\* C6 witness: the Ramp_Up call has returned.
C6_Witness == RampUpCall /\ at = "done"

\* C8: when create_curved_preset writes a curves list of length k <= 15, index
\* 72+i holds str(curves[i]) for i < k, indices 72+k..86 keep "-", and no token
\* outside 72..86 changes.
C8_CurveRegion ==
  [][(at = "curves" /\ fn = "curved" /\ Len(curves) <= 15) =>
       /\ Len(values') = Len(values)
       /\ \A i \in 0..14 :
            At(values', 72 + i) = IF i < Len(curves) THEN Str(At(curves, i))
                                  ELSE <<"-">>
       /\ \A k \in 0..71 : At(values', k) = At(values, k)]_vars

\* C8 witness: the curved variant has written a curves list of 2 entries.
C8_Witness == at = "join" /\ fn = "curved" /\ Len(curves) = 2

\* Where component c of point i sits in the 87-token sequence.
FinalPointIndex(i, c) ==
  IF i <= 11 THEN 39 + 2 * i + c
  ELSE IF i = 12 THEN (IF c = 0 THEN 63 ELSE 65)
  ELSE 40 + 2 * i + c

\* C10: in the 87-token sequence point i's x and y are at 39+2i and 40+2i for
\* i <= 11, at 63 and 65 for i = 12 (the quoted name at 64 between them) and at
\* 40+2i and 41+2i for i in 13..15; they lie in 39..71, and they and the name
\* are still there once the curve region 72..86 is written.
C10_PointLayout ==
  AfterInsert =>
    /\ \A i \in 0..15 : \A c \in 0..1 :
         /\ At(values, FinalPointIndex(i, c)) = PointToken(i, c)
         /\ FinalPointIndex(i, c) \in 39..71
         /\ FinalPointIndex(i, c) # 64
    /\ At(values, 64) = <<"\"">> \o name \o <<"\"">>

\* C10 witness: a curved call with 16 points or more and 15 curves or more has
\* written its curve region.
C10_Witness ==
  /\ AfterCurves /\ fn = "curved" /\ Len(points) >= 16 /\ Len(curves) >= 15

\* A name free of the two delimiter characters, backtick and double quote.
ValidName(n) == \A i \in 1..Len(n) : n[i] \notin {Backtick, "\""}

\* The indexes of s, in order, whose character satisfies Test.
IndexesWhere(s, Test(_)) ==
  SelectSeq(List([i \in 1..Len(s) |-> i]), LAMBDA i : Test(i))

\* The characters of text at the indexes keep, in that order.
Pick(text, keep) == List([k \in 1..Len(keep) |-> text[keep[k]]])

\* text.replace("\n    ", ""): the text without its line-wrap separators.
Unwrap(text) ==
  LET sep == <<"\n", " ", " ", " ", " ">>
      starts(j) == j >= 1 /\ j + 4 <= Len(text) /\ SubSeq(text, j, j + 4) = sep
      inSep(i) == \E j \in (i - 4)..i : starts(j)
  IN Pick(text, IndexesWhere(text, LAMBDA i : ~inSep(i)))

\* base64.b64decode(text): each 4 characters give 3 bytes, less one byte per
\* trailing "=".
B64Decode(text) ==
  LET n == Len(text)
      pad == IF n >= 2 /\ text[n - 1] = "=" THEN 2
             ELSE IF n >= 1 /\ text[n] = "=" THEN 1 ELSE 0
      val(c) == IF c = "=" THEN 0 ELSE (CHOOSE i \in 1..64 : B64Alphabet[i] = c) - 1
      quad(g) == val(text[4 * g - 3]) * 262144 + val(text[4 * g - 2]) * 4096
                 + val(text[4 * g - 1]) * 64 + val(text[4 * g])
      byte(k) == LET g == ((k - 1) \div 3) + 1
                     p == (k - 1) % 3
                 IN IF p = 0 THEN quad(g) \div 65536
                    ELSE IF p = 1 THEN (quad(g) \div 256) % 256
                    ELSE quad(g) % 256
  IN List([k \in 1..(3 * (n \div 4) - pad) |-> byte(k)])

\* The pieces of text that the indexes sp separate.
Pieces(text, sp) ==
  LET from(k) == IF k = 1 THEN 1 ELSE sp[k - 1] + 1
      to(k) == IF k = Len(sp) + 1 THEN Len(text) ELSE sp[k] - 1
  IN List([k \in 1..(Len(sp) + 1) |-> SubSeq(text, from(k), to(k))])

\* text.split(" "): the pieces between single spaces, empty ones included.
SplitSpaces(text) == Pieces(text, IndexesWhere(text, LAMBDA i : text[i] = " "))

\* The tokens read back from a returned payload.
ReadBack(payload) == SplitSpaces(BytesDecode(B64Decode(Unwrap(payload))))

\* The arguments of the current call make a valid shape definition: a name
\* free of backtick and double quote, a point count in 1..16, 16 points at
\* most, 15 curves at most.
ValidCall ==
  /\ ValidName(name) /\ num_points \in 1..16
  /\ Len(points) <= 16 /\ Len(curves) <= 15

\* C4 as stated: for every valid shape definition, one whose name has a space
\* included, unwrapping, base64-decoding and splitting the returned payload on
\* single spaces gives back the 87 tokens.
C4_RoundTripAnyName ==
  (at = "done" /\ ValidCall) =>
    /\ Len(ReadBack(ret)) = 87
    /\ ReadBack(ret) = values

\* C4 amended: the same for every name free of backtick, double quote and space.
C4_RoundTrip ==
  (at = "done" /\ ValidName(name) /\ \A i \in 1..Len(name) : name[i] # " ") =>
    /\ Len(ReadBack(ret)) = 87
    /\ ReadBack(ret) = values

\* C4 witness: a call with a name free of backtick, double quote and space and
\* 16 points or more has returned.
C4_Witness ==
  /\ at = "done" /\ ValidName(name) /\ \A i \in 1..Len(name) : name[i] # " "
  /\ Len(points) >= 16

\* The payload of create_basic_preset for the arguments of the current call.
BasicPayloadHere == create_basic_preset(name, num_points, points)

\* C9: create_curved_preset with 15 integer zeros as curves returns the payload
\* of create_basic_preset for the same name, num_points and points; with fewer
\* than 15 curves, or a curve whose text is not "0", the payloads differ and the
\* tokens differ in 72..86 only.
C9_VariantsAgree ==
  (at = "done" /\ fn = "curved") =>
    /\ curves = List([i \in 1..15 |-> PyInt(0)]) => ret = BasicPayloadHere
    /\ (Len(curves) < 15 \/ \E i \in 1..Len(curves) : Str(curves[i]) # <<"0">>) =>
         /\ ret # BasicPayloadHere
         /\ \A k \in 0..71 : At(values, k) = At(BasicTokens(name, num_points, points), k)

\* A shape definition that breaks a constraint: a backtick or double quote in
\* the name, a point count outside 1..16, more than 16 points, more than 15
\* curves.
Malformed(entry) ==
  \/ ~ValidName(entry[1])
  \/ entry[2] \notin 1..16
  \/ Len(entry[3]) > 16
  \/ (Len(entry) = 4 /\ Len(entry[4]) > 15)

AnyMalformed ==
  \/ \E k \in 1..Len(basic) : Malformed(basic[k])
  \/ \E k \in 1..Len(curved) : Malformed(curved[k])

\* C3: when a shape definition of the tables is malformed, main produces no
\* output at all: neither the library header nor any preset record.
C3_FailFast == AnyMalformed => out = <<>>

\* The three prints of one record.
RecordLines(n, payload) ==
  << <<" ", " ", "<", "P", "R", "E", "S", "E", "T", " ", Backtick>> \o n \o <<Backtick>>,
     <<" ", " ", " ", " ">> \o payload,
     <<" ", " ", ">">> >>

\* The prints of the records of both tables: the basic table's in table order,
\* then the curved table's in table order.
ExpectedRecords ==
  StrJoin(<<>>, List([r \in 1..Len(basic) |->
                        RecordLines(basic[r][1],
                                    create_basic_preset(basic[r][1], basic[r][2],
                                                        basic[r][3]))]))
  \o StrJoin(<<>>, List([r \in 1..Len(curved) |->
                           RecordLines(curved[r][1],
                                       create_curved_preset(curved[r][1], curved[r][2],
                                                            curved[r][3], curved[r][4]))]))

\* The whole output of main for the tables: the header, the records, ">".
ExpectedOutput == <<Header>> \o ExpectedRecords \o << <<">">> >>

\* The output so far is the start of expected, and all of it once main has ended.
OutputFollows(expected) ==
  /\ Len(out) <= Len(expected)
  /\ out = SubSeq(expected, 1, Len(out))
  /\ pc = "done" => out = expected
  /\ pc # "header" => Len(out) >= 1 /\ out[1] = Header

\* C7: at every moment the output is a prefix of: the header, then one record of
\* three prints per shape definition, basic table first, each table in table
\* order, then ">"; and when main ends the output is all of it.
C7_OutputOrder == OutputFollows(ExpectedOutput)

\* C7 witness: main has ended after two different basic entries and two
\* different curved entries.
C7_Witness ==
  /\ pc = "done"
  /\ Len(basic) = 2 /\ basic[1] # basic[2]
  /\ Len(curved) = 2 /\ curved[1] # curved[2]

====
